---- MODULE Spec2Model ----
(***************************************************************************)
(* Host side of the WASM DooM terminal front end (src/main.rs): startup,  *)
(* the main loop, key handling, and the five imports the guest calls back *)
(* into (log x3, milliseconds_since_start, draw_screen).                  *)
(*                                                                         *)
(* The guest is an opaque binary: inside a host-to-guest call it may call  *)
(* any import any number of times with any i32 arguments, then return or  *)
(* trap.  A Rust panic in an import unwinds through the guest call and     *)
(* main() and ends the process; the panic hook installed by               *)
(* ratatui::init() restores the terminal on the way.                       *)
(***************************************************************************)
EXTENDS Integers, Sequences, FiniteSets, TLC

(***************************************************************************)
(* Bounds of the model.                                                    *)
(***************************************************************************)
TicksPerSecond == 2     \* clock resolution: ticks in ONE_SECOND
MaxTime == 7            \* the clock stops advancing at this tick
MaxFrames == 30         \* cap on frames_since_last_second
MaxQueue == 1           \* terminal events waiting to be read
MaxDrift == 1           \* ticks the clock may advance inside draw_screen
MaxDraws == 2           \* frames per second where the user types in between

(***************************************************************************)
(* Program constants.                                                      *)
(***************************************************************************)
MEMORY_PAGES == 102
WasmPageSize == 64 * 1024
MemorySize == MEMORY_PAGES * WasmPageSize
FrameBytes == 640 * 400 * 4
FallbackFontSize == <<8, 16>>

\* Option: None is <<>>, Some(v) is <<v>>
None == <<>>

Some(v) == <<v>>

Max(a, b) == IF a >= b THEN a ELSE b
U16Max == 65536 - 1

(***************************************************************************)
(* Guest memory access.  An i32 cast with `as u64` sign-extends; the u64   *)
(* is kept as hi * 2^64 + lo with hi \in {0,1} and lo the i32 itself, so   *)
(* a negative i32 x is the u64 2^64 + x.                                   *)
(***************************************************************************)
as_u64(x) == [hi |-> IF x < 0 THEN 1 ELSE 0, lo |-> x]

\* WasmSlice::new(view, offset, len): offset.checked_add(len) in u64;
\* read_to_vec(): the bounds check of the end against the memory size.
\* The value is "Ok" or the MemoryAccessError.
MemoryRead(off, len) ==
    LET hi == off.hi + len.hi
        lo == off.lo + len.lo
        carry == IF hi = 1 /\ lo >= 0 THEN 1 ELSE 0
    IN  IF hi + carry >= 2 THEN "Overflow"
        ELSE IF hi = 1 \/ lo > MemorySize THEN "HeapOutOfBounds"
        ELSE "Ok"

(***************************************************************************)
(* String::from_utf8: whether a byte sequence is well-formed UTF-8.        *)
(***************************************************************************)
IsCont(b) == b >= 128 /\ b <= 191

RECURSIVE Utf8Valid(_)
Utf8Valid(bytes) ==
    IF bytes = <<>> THEN TRUE
    ELSE LET b == Head(bytes)
             n == Len(bytes)
             rest(k) == SubSeq(bytes, k + 1, n)
         IN  IF b <= 127 THEN Utf8Valid(rest(1))
             ELSE IF b >= 194 /\ b <= 223
                  THEN n >= 2 /\ IsCont(bytes[2]) /\ Utf8Valid(rest(2))
             ELSE IF b >= 224 /\ b <= 239
                  THEN /\ n >= 3
                       /\ IsCont(bytes[2]) /\ IsCont(bytes[3])
                       /\ (b = 224 => bytes[2] >= 160)
                       /\ (b = 237 => bytes[2] <= 159)
                       /\ Utf8Valid(rest(3))
             ELSE IF b >= 240 /\ b <= 244
                  THEN /\ n >= 4
                       /\ IsCont(bytes[2]) /\ IsCont(bytes[3]) /\ IsCont(bytes[4])
                       /\ (b = 240 => bytes[2] >= 144)
                       /\ (b = 244 => bytes[2] <= 143)
                       /\ Utf8Valid(rest(4))
             ELSE FALSE

(***************************************************************************)
(* Key translation.  A key code is a record [t, c]: t is the KeyCode       *)
(* variant, c the char's code point (Char) or the number (F), else 0.      *)
(***************************************************************************)
Char(c) == [t |-> "Char", c |-> c]
Named(t) == [t |-> t, c |-> 0]
FKey(n) == [t |-> "F", c |-> n]

key_event_to_doom_event_RepeatAsPress(kind) ==
    IF kind = "Release" THEN Some(1) ELSE Some(0)
key_event_to_doom_event(kind) ==
    CASE kind = "Press" -> Some(0)
      [] kind = "Release" -> Some(1)
      [] kind = "Repeat" -> None

key_code_to_doom_key(code) ==
    CASE code.t = "Enter" -> Some(13)
      [] code.t = "Backspace" -> Some(127)
      [] code = Char(32) -> Some(32)
      [] code.t = "Left" -> Some(172)
      [] code.t = "Right" -> Some(174)
      [] code.t = "Up" -> Some(173)
      [] code.t = "Down" -> Some(175)
      [] code.t = "Tab" -> Some(9)
      [] code.t = "Esc" -> Some(27)
      [] code = Char(122) -> Some(128 + 29)
      [] code = Char(120) -> Some(128 + 56)
      [] code = Char(99) -> Some(16)
      [] code = Char(118) -> Some(32)
      [] code.t = "Char" /\ code.c \notin {32, 122, 120, 99, 118} -> Some(code.c)
      [] code.t = "F" -> Some(code.c + 187)
      [] OTHER -> None

\* The application-level keys of poll_events: 'q' 'Q' 'p' 'P' '+' '-'.
IsQuitKey(code) == code = Char(113) \/ code = Char(81)
IsProtocolKey_LowerOnly(code) == code = Char(112)
IsProtocolKey(code) == code = Char(112) \/ code = Char(80)
IsZoomInKey(code) == code = Char(43)
IsZoomOutKey(code) == code = Char(45)

\* ProtocolType::next as used by cycle_protocol_type.
ProtocolTypes == {"Halfblocks", "Sixel", "Kitty", "Iterm2"}
NextProtocol(p) ==
    CASE p = "Halfblocks" -> "Sixel"
      [] p = "Sixel" -> "Kitty"
      [] p = "Kitty" -> "Iterm2"
      [] p = "Iterm2" -> "Halfblocks"


(***************************************************************************)
(* Inputs the environment and the guest draw from.                         *)
(***************************************************************************)
KeyCodes ==
    { Char(113), Char(81), Char(112), Char(80), Char(43), Char(45),
      Char(97), Named("Enter"), Named("Insert") }
KeyKinds == {"Press", "Release", "Repeat"}
KeyEvent(code, kind) == [key |-> TRUE, code |-> code, kind |-> kind]
\* Event::Resize and the other non-key events of event::read
OtherEvent == [key |-> FALSE, code |-> Named("Null"), kind |-> "Press"]
Events == { KeyEvent(c, k) : c \in KeyCodes, k \in KeyKinds } \cup {OtherEvent}

\* one event of each kind poll_events tells apart, for runs where the guest
\* draws between the events
FrameEvents ==
    { KeyEvent(Char(113), "Press"), KeyEvent(Char(112), "Press"),
      KeyEvent(Char(43), "Press"), KeyEvent(Char(45), "Press"),
      KeyEvent(Char(97), "Press"), OtherEvent }

QueriedFontSizes == { <<10, 20>> }
ExportNames == {"main", "doom_loop_step", "add_browser_event"}

\* i32 arguments a guest may pass, around the edges of the 102-page memory
LogOffsets == { -1, 0, MemorySize - 2, MemorySize }
LogLengths == { -1, 0, 1, 2 }
DrawOffsets == { -1, 0, MemorySize - FrameBytes, MemorySize - FrameBytes + 1, MemorySize }
\* what the guest may have left in the bytes of a region it names
Contents == { <<>>, <<72>>, <<72, 105>>, <<195, 169>>, <<255>>, <<195, 40>> }

(***************************************************************************)
(* State.                                                                  *)
(***************************************************************************)
VARIABLES
    pc,             \* where main()/run()/poll_events() stands
    callee,         \* the export being executed while pc = "guest"
    result,         \* how the process ended: "running", "Ok", "Err(..)", "panic"
    term,           \* terminal mode: "cooked" (prior mode) or "app"
    exports,        \* exports the module offers with the expected types
    queue,          \* terminal events waiting in crossterm
    now,            \* the monotonic clock, in ticks
    \* DoomApp
    exit, last_log_line, last_log_error, image_picker, current_frame,
    default_font_size, zoom, started_at, last_second,
    frames_since_last_second, fps,
    \* history: the step just taken and the DoomApp it started from
    last, pre,
    \* history: which guest entry points were ever called, and a poll made
    called, polled,
    \* history: a quit press has been read
    quit_read,
    \* history: draws done (capped at 2) and whether each came exactly
    \* one second after the anchor
    draws, all_exact,
    \* history: calls of the guest's main (capped at 2), whether one has
    \* returned, and calls of step made after a quit press was read (capped
    \* at 2)
    init_calls, init_returned, steps_after_quit,
    \* history: calls of step since the loop condition was last evaluated
    \* (capped at 2)
    steps_in_iter

appvars == << exit, last_log_line, last_log_error, image_picker, current_frame,
              default_font_size, zoom, started_at, last_second,
              frames_since_last_second, fps >>
runvars == << init_calls, init_returned, steps_after_quit, steps_in_iter >>
histvars == << called, polled, quit_read, draws, all_exact, runvars >>
vars == << pc, callee, result, term, exports, queue, now, appvars,
           last, pre, histvars >>

App == [ exit |-> exit, last_log_line |-> last_log_line,
         last_log_error |-> last_log_error, image_picker |-> image_picker,
         current_frame |-> current_frame, default_font_size |-> default_font_size,
         zoom |-> zoom, started_at |-> started_at, last_second |-> last_second,
         frames_since_last_second |-> frames_since_last_second, fps |-> fps ]

NoPicker == [font_size |-> <<0, 0>>, protocol_type |-> "none"]

\* the step just taken: op names it; the other fields are its inputs and
\* what it did; at and inside are pc and callee when it started
Step(op) == [ op |-> op, code |-> Named("Null"), kind |-> "none", arg |-> 0,
              fail |-> "none", redraw |-> FALSE, forwarded |-> None,
              elapsed |-> 0, seconds |-> 0, at |-> pc, inside |-> callee ]

Init ==
    /\ pc = "start"
    /\ callee = "none"
    /\ result = "running"
    /\ term = "cooked"
    /\ exports \in SUBSET ExportNames
    /\ queue = <<>>
    /\ now = 0
    /\ exit = FALSE
    /\ last_log_line = None
    /\ last_log_error = FALSE
    /\ image_picker = NoPicker
    /\ current_frame = None
    /\ default_font_size = <<0, 0>>
    /\ zoom = 1
    /\ started_at = 0
    /\ last_second = 0
    /\ frames_since_last_second = 0
    /\ fps = 0
    /\ last = Step("none")
    /\ pre = App
    /\ called = {}
    /\ polled = FALSE
    /\ quit_read = FALSE
    /\ draws = 0
    /\ all_exact = TRUE
    /\ init_calls = 0
    /\ init_returned = FALSE
    /\ steps_after_quit = 0
    /\ steps_in_iter = 0

(***************************************************************************)
(* How the process ends.                                                   *)
(***************************************************************************)
\* `?` in main() before run(): return Err straight away (lines 75-141)
ReturnErrFromMain(what) ==
    /\ pc' = "exited"
    /\ result' = what
    /\ UNCHANGED term

\* `?` inside run(): main() still reaches ratatui::restore() (lines 150-154)
ReturnErrFromRun(what) ==
    /\ pc' = "restore"
    /\ result' = what
    /\ UNCHANGED term

\* unwrap() on Err/None, or a division by zero: the panic hook installed by
\* ratatui::init() restores the terminal, the unwind ends the process
Panic ==
    /\ pc' = "panicked"
    /\ result' = "panic"
    /\ term' = "cooked"

Quiet(op) ==
    /\ last' = Step(op)
    /\ pre' = App


(***************************************************************************)
(* main(): startup (lines 70-148).                                         *)
(***************************************************************************)
\* ratatui::init(): raw mode and alternate screen
InitTerminal ==
    /\ pc = "start"
    /\ term' = "app"
    /\ pc' = "create_memory"
    /\ Quiet("init_terminal")
    /\ UNCHANGED << callee, result, exports, queue, now, appvars, histvars >>

\* Memory::new(..)?
CreateMemory ==
    /\ pc = "create_memory"
    /\ \E ok \in BOOLEAN :
         IF ok THEN pc' = "query_picker" /\ UNCHANGED << result, term >>
               ELSE ReturnErrFromMain("Err(memory)")
    /\ Quiet("create_memory")
    /\ UNCHANGED << callee, exports, queue, now, appvars, histvars >>

\* Picker::from_query_stdio() and the DoomApp literal
QueryPicker ==
    /\ pc = "query_picker"
    /\ \E outcome \in {"Ok", "NoFontSize", "Err"}, fs \in QueriedFontSizes,
          pt \in ProtocolTypes :
         LET picker == IF outcome = "Ok"
                       THEN [font_size |-> fs, protocol_type |-> pt]
                       ELSE [font_size |-> FallbackFontSize,
                             protocol_type |-> "Halfblocks"]
         IN  IF outcome = "Err"
             THEN /\ ReturnErrFromMain("Err(picker)")
                  /\ UNCHANGED appvars
             ELSE /\ pc' = "load_module"
                  /\ exit' = FALSE
                  /\ last_log_line' = None
                  /\ last_log_error' = FALSE
                  /\ default_font_size' = picker.font_size
                  /\ image_picker' = picker
                  /\ current_frame' = None
                  /\ zoom' = 1
                  /\ started_at' = now
                  /\ last_second' = now
                  /\ frames_since_last_second' = 0
                  /\ fps' = 0
                  /\ UNCHANGED << result, term >>
    /\ Quiet("query_picker")
    /\ UNCHANGED << callee, exports, queue, now, histvars >>

\* Module::new(..)?
LoadModule ==
    /\ pc = "load_module"
    /\ \E ok \in BOOLEAN :
         IF ok THEN pc' = "instantiate" /\ UNCHANGED << result, term >>
               ELSE ReturnErrFromMain("Err(module)")
    /\ Quiet("load_module")
    /\ UNCHANGED << callee, exports, queue, now, appvars, histvars >>

\* Instance::new(..)?
Instantiate ==
    /\ pc = "instantiate"
    /\ \E ok \in BOOLEAN :
         IF ok THEN pc' = "get_main" /\ UNCHANGED << result, term >>
               ELSE ReturnErrFromMain("Err(instance)")
    /\ Quiet("instantiate")
    /\ UNCHANGED << callee, exports, queue, now, appvars, histvars >>

\* instance.exports.get_typed_function(&store, name) is Ok
get_typed_function_Lenient(ex, name) == TRUE
get_typed_function(ex, name) == name \in ex

GetExport(at, name, next) ==
    /\ pc = at
    /\ IF get_typed_function(exports, name)
       THEN pc' = next /\ UNCHANGED << result, term >>
       ELSE ReturnErrFromMain("Err(export)")
    /\ Quiet(at)
    /\ UNCHANGED << callee, exports, queue, now, appvars, histvars >>

GetMain == GetExport("get_main", "main", "get_step")
GetStep == GetExport("get_step", "doom_loop_step", "get_add_event")
GetAddEvent == GetExport("get_add_event", "add_browser_event", "call_main")

(***************************************************************************)
(* run() (lines 158-181) and main()'s tail (lines 150-154).                *)
(***************************************************************************)
EnterGuest(name) ==
    /\ pc' = "guest"
    /\ callee' = name
    /\ called' = called \cup {name}

\* self.functions.main.call(self.store, 0, 0)
CallMain ==
    /\ pc = "call_main"
    /\ EnterGuest("main")
    /\ init_calls' = IF init_calls < 2 THEN init_calls + 1 ELSE 2
    /\ last' = [Step("call_main") EXCEPT !.forwarded = Some(<<0, 0>>)]
    /\ pre' = App
    /\ UNCHANGED << result, term, exports, queue, now, appvars,
                    polled, quit_read, draws, all_exact,
                    init_returned, steps_after_quit, steps_in_iter >>

\* while !self.env.as_ref(self.store).exit
LoopCondition_Forever(ex) == TRUE
LoopCondition(ex) == ~ex

LoopCheck ==
    /\ pc = "loop_check"
    /\ IF LoopCondition(exit)
       THEN pc' = "poll" /\ UNCHANGED result
       ELSE pc' = "restore" /\ result' = "Ok"
    /\ steps_in_iter' = 0
    /\ Quiet("loop_check")
    /\ UNCHANGED << callee, term, exports, queue, now, appvars,
                    called, polled, quit_read, draws, all_exact,
                    init_calls, init_returned, steps_after_quit >>

\* self.functions.step.call(self.store)
CallStep ==
    /\ pc = "step"
    /\ EnterGuest("doom_loop_step")
    /\ steps_after_quit' = IF quit_read /\ steps_after_quit < 2
                            THEN steps_after_quit + 1 ELSE steps_after_quit
    /\ steps_in_iter' = IF steps_in_iter < 2 THEN steps_in_iter + 1 ELSE 2
    /\ Quiet("call_step")
    /\ UNCHANGED << result, term, exports, queue, now, appvars,
                    polled, quit_read, draws, all_exact,
                    init_calls, init_returned >>

\* thread::sleep(Duration::from_millis(1))
\* (Ticks: by how many ticks the clock may advance meanwhile)
Sleep(Ticks) ==
    /\ pc = "sleep"
    /\ pc' = "loop_check"
    /\ \E d \in Ticks :
         /\ now + d <= MaxTime
         /\ now' = now + d
    /\ Quiet("sleep")
    /\ UNCHANGED << callee, result, term, exports, queue, appvars, histvars >>

\* ratatui::restore(); app_result
Restore ==
    /\ pc = "restore"
    /\ term' = "cooked"
    /\ pc' = "exited"
    /\ Quiet("restore")
    /\ UNCHANGED << callee, result, exports, queue, now, appvars, histvars >>


(***************************************************************************)
(* DoomApp methods (lines 236-264).                                        *)
(***************************************************************************)
saturating_add(a, b) == IF a + b > U16Max THEN U16Max ELSE a + b
saturating_sub(a, b) == IF a - b < 0 THEN 0 ELSE a - b

\* the argument increment_zoom / decrement_zoom hand to set_zoom
increment_zoom_arg(z) == saturating_add(z, 1)
decrement_zoom_arg_NoClamp(z) == saturating_sub(z, 1)
decrement_zoom_arg(z) == Max(saturating_sub(z, 1), 1)

\* set_zoom: the picker it builds; the u16 division panics on zoom = 0
set_zoom_picker_FreshProtocol(picker, dfs, z) ==
    [ font_size |-> << dfs[1] \div z, dfs[2] \div z >>,
      protocol_type |-> "Halfblocks" ]
set_zoom_picker(picker, dfs, z) ==
    [ font_size |-> << dfs[1] \div z, dfs[2] \div z >>,
      protocol_type |-> picker.protocol_type ]

\* set_zoom: the value of self.zoom when it returns (never assigned)
set_zoom_field(old, z) == old

set_zoom(z) ==
    IF z = 0
    THEN /\ Panic
         /\ UNCHANGED << image_picker, zoom >>
    ELSE /\ image_picker' = set_zoom_picker(image_picker, default_font_size, z)
         /\ zoom' = set_zoom_field(zoom, z)
         /\ pc' = "poll"
         /\ UNCHANGED << result, term >>

cycle_protocol_type(picker) ==
    [picker EXCEPT !.protocol_type = NextProtocol(picker.protocol_type)]

(***************************************************************************)
(* poll_events() (lines 183-233).                                          *)
(***************************************************************************)
\* key.kind == KeyEventKind::Press
IsPress_AnyKind(kind) == TRUE
IsPress(kind) == kind = "Press"

\* the catch-all arm: Some((event, code)) when the key goes to the guest
Forwarded_Swapped(code, kind) ==
    LET c == key_code_to_doom_key(code)
        e == key_event_to_doom_event(kind)
    IN  IF c # None /\ e # None THEN Some(<< c[1], e[1] >>) ELSE None
Forwarded(code, kind) ==
    LET c == key_code_to_doom_key(code)
        e == key_event_to_doom_event(kind)
    IN  IF c # None /\ e # None THEN Some(<< e[1], c[1] >>) ELSE None

\* while event::poll(Duration::ZERO)? { .. }: where control goes when the
\* poll succeeds, q being what is pending
PollNext_NoDrain(q) == "step"
PollNext(q) == IF q # <<>> THEN "read" ELSE "step"

\* event::poll(Duration::ZERO)?
Poll ==
    /\ pc = "poll"
    /\ polled' = TRUE
    /\ \E ok \in BOOLEAN :
         IF ~ok THEN ReturnErrFromRun("Err(poll)")
         ELSE /\ pc' = PollNext(queue)
              /\ UNCHANGED << result, term >>
    /\ Quiet("poll")
    /\ UNCHANGED << callee, exports, queue, now, appvars,
                    called, quit_read, draws, all_exact, runvars >>

\* event::read()? failing
ReadFails ==
    /\ pc = "read"
    /\ ReturnErrFromRun("Err(read)")
    /\ Quiet("read_fails")
    /\ UNCHANGED << callee, exports, queue, now, appvars, histvars >>

\* event::read()? and the match on the event
ReadEvent ==
    /\ pc = "read"
    /\ queue # <<>>
    /\ LET e == Head(queue)
           fwd == Forwarded(e.code, e.kind)
           app_key == \/ IsQuitKey(e.code) \/ IsProtocolKey(e.code)
                      \/ IsZoomInKey(e.code) \/ IsZoomOutKey(e.code)
           arg == IF IsZoomInKey(e.code) THEN increment_zoom_arg(zoom)
                  ELSE IF IsZoomOutKey(e.code) THEN decrement_zoom_arg(zoom)
                  ELSE 0
       IN
       /\ queue' = Tail(queue)
       /\ pre' = App
       /\ last' = [Step(IF e.key THEN "key" ELSE "other_event") EXCEPT
                     !.code = e.code, !.kind = e.kind, !.arg = arg,
                     !.forwarded = IF e.key /\ ~app_key THEN fwd ELSE None]
       /\ quit_read' = (quit_read \/ (e.key /\ IsQuitKey(e.code) /\ e.kind = "Press"))
       /\ IF ~e.key \/ (app_key /\ ~IsPress(e.kind))
          THEN /\ pc' = "poll"
               /\ UNCHANGED << callee, result, term, appvars, called >>
          ELSE IF IsQuitKey(e.code)
          THEN /\ exit' = TRUE
               /\ pc' = "poll"
               /\ UNCHANGED << callee, result, term, called, last_log_line,
                    last_log_error, image_picker, current_frame,
                    default_font_size, zoom, started_at, last_second,
                    frames_since_last_second, fps >>
          ELSE IF IsProtocolKey(e.code)
          THEN /\ image_picker' = cycle_protocol_type(image_picker)
               /\ pc' = "poll"
               /\ UNCHANGED << callee, result, term, called, exit, last_log_line,
                    last_log_error, current_frame, default_font_size, zoom,
                    started_at, last_second, frames_since_last_second, fps >>
          ELSE IF IsZoomInKey(e.code) \/ IsZoomOutKey(e.code)
          THEN /\ set_zoom(arg)
               /\ UNCHANGED << callee, called, exit, last_log_line,
                    last_log_error, current_frame, default_font_size,
                    started_at, last_second, frames_since_last_second, fps >>
          ELSE IF fwd # None
          THEN /\ EnterGuest("add_browser_event")
               /\ UNCHANGED << result, term, appvars >>
          ELSE /\ pc' = "poll"
               /\ UNCHANGED << callee, result, term, appvars, called >>
    /\ UNCHANGED << exports, now, polled, draws, all_exact, runvars >>

\* the user presses, releases or holds a key, or the terminal is resized
Arrives(Evs) ==
    /\ pc \in {"loop_check", "poll", "read", "step", "sleep", "guest"}
    /\ Len(queue) < MaxQueue
    /\ \E e \in Evs : queue' = Append(queue, e)
    /\ Quiet("key_arrives")
    /\ UNCHANGED << pc, callee, result, term, exports, now, appvars, histvars >>


(***************************************************************************)
(* The imports (lines 266-332), each run inside a host-to-guest call.      *)
(***************************************************************************)
InGuest_ByCallee == callee # "none"
InGuest == pc = "guest"

\* log_string(env, offset, length, error); js_console_log and js_stdout
\* pass error = false, js_stderr passes true
log_string(Offsets, Lengths) ==
    /\ InGuest
    /\ \E offset \in Offsets, length \in Lengths, error \in BOOLEAN :
       \E bytes \in IF MemoryRead(as_u64(offset), as_u64(length)) = "Ok"
                    THEN { b \in Contents : Len(b) = length } ELSE { <<>> } :
         LET r == MemoryRead(as_u64(offset), as_u64(length))
             fail == IF r # "Ok" THEN "memory"
                     ELSE IF ~Utf8Valid(bytes) THEN "decode" ELSE "none"
         IN  /\ last' = [Step("log") EXCEPT !.arg = offset, !.fail = fail,
                                            !.kind = r]
             /\ IF fail # "none"
                THEN /\ Panic
                     /\ UNCHANGED << last_log_line, last_log_error >>
                ELSE /\ last_log_line' = Some(bytes)
                     /\ last_log_error' = error
                     /\ UNCHANGED << pc, result, term >>
    /\ pre' = App
    /\ UNCHANGED << callee, exports, queue, now, exit, image_picker,
                    current_frame, default_font_size, zoom, started_at,
                    last_second, frames_since_last_second, fps, histvars >>

\* milliseconds_since_start: elapsed().as_millis() as i32 (the cast wraps
\* after 2^31 ms, beyond any clock value here)
MillisPerTick == 1000 \div TicksPerSecond

milliseconds_since_start ==
    /\ InGuest
    /\ last' = [Step("elapsed_ms") EXCEPT !.arg = (now - started_at) * MillisPerTick]
    /\ pre' = App
    /\ UNCHANGED << pc, callee, result, term, exports, queue, now, appvars,
                    histvars >>

\* app.last_second.elapsed() < ONE_SECOND
WithinSecond(anchor, t) == t - anchor < TicksPerSecond

\* the while loop of lines 313-316, with the clock at its last reading t:
\* <<last_second, seconds>> when it ends
RECURSIVE CatchUp(_, _, _)
CatchUp(anchor, t, seconds) ==
    IF t - anchor >= TicksPerSecond
    THEN CatchUp(anchor + TicksPerSecond, t, seconds + 1)
    ELSE << anchor, seconds >>

\* app.fps = app.frames_since_last_second / seconds
FpsOf_NoDivide(frames, seconds) == frames
FpsOf(frames, seconds) == frames \div seconds

\* frames_since_last_second after the else branch
FramesAfterSecond(frames) == 0

\* app.current_frame = Some(app.image_picker.new_protocol(..).unwrap())
NewFrame_Dropped(picker) == None
NewFrame(picker) == Some(picker)

\* (Drift: ticks the clock may advance between the handler's first and
\* last reading of it)
draw_screen(Offsets, Drift) ==
    /\ InGuest
    /\ \E offset \in Offsets, d \in Drift, term_ok \in BOOLEAN :
         LET r == MemoryRead(as_u64(offset), [hi |-> 0, lo |-> FrameBytes])
             within == WithinSecond(last_second, now)
             t == IF within THEN now ELSE now + d
             cu == CatchUp(last_second, t, 0)
             fail == IF r # "Ok" THEN "memory"
                     ELSE IF ~term_ok THEN "terminal" ELSE "none"
         IN  /\ t <= MaxTime
             /\ (within \/ r # "Ok") => d = 0
             /\ r # "Ok" => term_ok
             /\ within /\ r = "Ok" => frames_since_last_second < MaxFrames
             /\ last' = [Step("draw") EXCEPT !.arg = offset, !.fail = fail,
                           !.kind = r, !.redraw = (fail = "none"),
                           !.elapsed = now - last_second,
                           !.seconds = IF within THEN 0 ELSE cu[2]]
             /\ IF r # "Ok"
                THEN /\ Panic
                     /\ UNCHANGED << now, current_frame, last_second,
                                     frames_since_last_second, fps,
                                     draws, all_exact >>
                ELSE /\ current_frame' = NewFrame(image_picker)
                     /\ now' = t
                     /\ IF within
                        THEN /\ frames_since_last_second' =
                                    frames_since_last_second + 1
                             /\ UNCHANGED << last_second, fps >>
                        ELSE /\ last_second' = cu[1]
                             /\ fps' = FpsOf(frames_since_last_second, cu[2])
                             /\ frames_since_last_second' =
                                    FramesAfterSecond(frames_since_last_second)
                     /\ draws' = IF draws < 2 THEN draws + 1 ELSE 2
                     /\ all_exact' =
                          (all_exact /\ now - last_second = TicksPerSecond)
                     /\ IF term_ok THEN UNCHANGED << pc, result, term >>
                                   ELSE Panic
    /\ pre' = App
    /\ UNCHANGED << callee, exports, queue, exit, last_log_line,
                    last_log_error, image_picker, default_font_size, zoom,
                    started_at, called, polled, quit_read, runvars >>

(***************************************************************************)
(* The guest: time passes in it, it returns or it traps.                   *)
(***************************************************************************)
GuestTick ==
    /\ InGuest
    /\ now < MaxTime
    /\ now' = now + 1
    /\ Quiet("tick")
    /\ UNCHANGED << pc, callee, result, term, exports, queue, appvars, histvars >>

GuestReturn ==
    /\ InGuest
    /\ pc' = CASE callee = "main" -> "loop_check"
               [] callee = "doom_loop_step" -> "sleep"
               [] callee = "add_browser_event" -> "poll"
    /\ callee' = "none"
    /\ init_returned' = (init_returned \/ callee = "main")
    /\ Quiet("guest_return")
    /\ UNCHANGED << result, term, exports, queue, now, appvars,
                    called, polled, quit_read, draws, all_exact,
                    init_calls, steps_after_quit, steps_in_iter >>

\* a RuntimeError from the call: .context(..)? in run() / poll_events()
GuestTrap_MainIgnored ==
    /\ InGuest
    /\ IF callee = "main"
       THEN pc' = "loop_check" /\ UNCHANGED << result, term >>
       ELSE ReturnErrFromRun("Err(" \o callee \o ")")
    /\ Quiet("guest_trap")
    /\ UNCHANGED << callee, exports, queue, now, appvars, histvars >>
GuestTrap ==
    /\ InGuest
    /\ ReturnErrFromRun("Err(" \o callee \o ")")
    /\ Quiet("guest_trap")
    /\ UNCHANGED << callee, exports, queue, now, appvars, histvars >>

(***************************************************************************)
(* Specifications.  The host code is the same in all three; they differ    *)
(* in what the user and the guest are let do, so that each part of the     *)
(* state is explored in full without multiplying with the others.          *)
(*   Spec        the user types; the guest only returns or traps           *)
(*   SpecImports the guest calls the imports with any arguments            *)
(*   SpecClock   the clock runs and the guest draws valid frames           *)
(*   SpecFrame   the user types while the guest logs and draws             *)
(***************************************************************************)
Startup ==
    \/ InitTerminal \/ CreateMemory \/ QueryPicker \/ LoadModule
    \/ Instantiate \/ GetMain \/ GetStep \/ GetAddEvent

KeyArrives == Arrives(Events)
KeyArrivesLive == Arrives(FrameEvents)
\* (one event at a time: the user waits for it to be read)
KeyArrivesFrame ==
    /\ queue = <<>>
    /\ Arrives(FrameEvents)
SleepNoTick == Sleep({0})
SleepTick == Sleep({0, 1})
LogAny == log_string(LogOffsets, LogLengths)
DrawAny == draw_screen(DrawOffsets, {0})
DrawValid == draw_screen({0}, 0..MaxDrift)
LogFrame == log_string({0, MemorySize}, {1})
DrawFrame ==
    /\ frames_since_last_second < MaxDraws
    /\ draw_screen({0, MemorySize}, {0})

Next ==
    \/ Startup
    \/ CallMain \/ LoopCheck \/ Poll \/ ReadFails \/ ReadEvent \/ CallStep
    \/ SleepNoTick \/ Restore \/ KeyArrives
    \/ GuestReturn \/ GuestTrap

Spec == Init /\ [][Next]_vars

\* The same with one event of each kind, and with main() taking its next
\* step whenever it has one (a single thread; poll does not block and the
\* sleep ends).  Nothing is assumed of the user or of the guest.
NextLive ==
    \/ Startup
    \/ CallMain \/ LoopCheck \/ Poll \/ ReadFails \/ ReadEvent \/ CallStep
    \/ SleepNoTick \/ Restore \/ KeyArrivesLive
    \/ GuestReturn \/ GuestTrap

Fairness ==
    /\ WF_vars(Startup)
    /\ WF_vars(CallMain)
    /\ WF_vars(LoopCheck)
    /\ WF_vars(Poll)
    /\ WF_vars(ReadEvent \/ ReadFails)
    /\ WF_vars(CallStep)
    /\ WF_vars(SleepNoTick)
    /\ WF_vars(Restore)

SpecLive == Init /\ [][NextLive]_vars /\ Fairness

NextImports ==
    \/ Startup
    \/ CallMain \/ LoopCheck \/ Poll \/ CallStep \/ SleepNoTick \/ Restore
    \/ LogAny \/ milliseconds_since_start \/ DrawAny
    \/ GuestReturn \/ GuestTrap

SpecImports == Init /\ [][NextImports]_vars

NextClock ==
    \/ Startup
    \/ CallMain \/ LoopCheck \/ Poll \/ CallStep \/ SleepTick \/ Restore
    \/ DrawValid \/ GuestTick
    \/ GuestReturn \/ GuestTrap

SpecClock == Init /\ [][NextClock]_vars

NextFrame ==
    \/ Startup
    \/ CallMain \/ LoopCheck \/ Poll \/ ReadFails \/ ReadEvent \/ CallStep
    \/ SleepNoTick \/ Restore \/ KeyArrivesFrame
    \/ LogFrame \/ milliseconds_since_start \/ DrawFrame
    \/ GuestReturn \/ GuestTrap

SpecFrame == Init /\ [][NextFrame]_vars


(***************************************************************************)
(* Claims.                                                                 *)
(***************************************************************************)
Terminated == pc \in {"exited", "panicked"}
IsErr(r) == r \notin {"running", "Ok", "panic"}

DrawFailed == last.op = "draw" /\ last.fail = "memory"

\* C1: when the draw-frame callback fails (the 640*400*4-byte read at the
\* guest's offset is out of bounds), current_frame keeps its value, no
\* redraw is issued, the log line is set with error severity, and control
\* goes back to the guest so that the main loop continues.
C1_DrawFailureContained ==
    DrawFailed =>
        /\ current_frame = pre.current_frame
        /\ ~last.redraw
        /\ last_log_line # None
        /\ last_log_error
        /\ pc = "guest"
        /\ result = "running"

OutOfBoundsRead == last.op \in {"log", "draw"} /\ last.kind # "Ok"

\* C2: a log or draw-frame callback whose (offset, length), negative values
\* read as large unsigned ones, runs past the 102-page memory fails with a
\* memory error that stays inside the callback: the host neither panics
\* nor terminates.
C2_OutOfBoundsContained ==
    OutOfBoundsRead =>
        /\ last.fail = "memory"
        /\ pc = "guest"
        /\ result = "running"

DecodeFailed == last.op = "log" /\ last.fail = "decode"

\* C3: a log callback on an in-bounds region whose bytes are not valid
\* text does not crash the host: last_log_line holds a placeholder, the
\* line is marked as an error, and the session continues.
C3_DecodeFailureContained ==
    DecodeFailed =>
        /\ last_log_line # None
        /\ last_log_error
        /\ pc = "guest"
        /\ result = "running"

\* C4: whenever the process has terminated after the terminal was put into
\* application mode, the terminal is back in its prior mode.
C4_TerminalRestoredOnExit ==
    Terminated => term = "cooked"

ZoomPress == last.op = "key" /\ last.kind = "Press"
ZoomInPress == ZoomPress /\ IsZoomInKey(last.code)
ZoomOutPress == ZoomPress /\ IsZoomOutKey(last.code)

\* C5: in every reachable state zoom >= 1; a zoom-out press at zoom 1
\* leaves zoom at 1; and the divisor a zoom press applies to the font-cell
\* size is never 0 (no division by zero ends the process).
C5_ZoomAtLeastOne ==
    /\ zoom >= 1
    /\ (ZoomOutPress /\ pre.zoom = 1) => zoom = 1
    /\ (ZoomInPress \/ ZoomOutPress) => (last.arg >= 1 /\ pc # "panicked")

C5_Witness ==
    /\ ZoomOutPress
    /\ pre.zoom = 1
    /\ zoom = 1
    /\ last.arg = 1
    /\ image_picker.font_size = default_font_size

\* C6: each zoom-in press raises the zoom by exactly 1, and each zoom-out
\* press lowers it by exactly 1 unless it is already 1.
C6_ZoomStepsByOne ==
    /\ ZoomInPress => zoom = pre.zoom + 1
    /\ ZoomOutPress => zoom = Max(pre.zoom - 1, 1)


DrawDone == last.op = "draw" /\ last.fail # "memory"

\* C7: if every draw-frame call so far came exactly one second after the
\* FPS anchor, then from the second such frame on the reported FPS is 1.
C7_OneFramePerSecondIsOneFps ==
    (DrawDone /\ all_exact /\ draws >= 2) => fps = 1

\* What the code reports instead on that schedule: the frame that ends a
\* second is counted in no second, so the rate stays 0.
OneFramePerSecondReportsZero ==
    (DrawDone /\ all_exact) => (fps = 0 /\ frames_since_last_second = 0)

\* C8: a frame drawn with the anchor k >= 1 whole seconds old (by the
\* handler's last reading of the clock) and n frames accumulated moves the
\* anchor forward by exactly k seconds, reports n div k and resets the
\* count to 0; a frame drawn less than a second after the anchor leaves
\* anchor and FPS alone and adds 1 to the count.
C8_FpsAccounting ==
    DrawDone =>
        IF last.elapsed < TicksPerSecond
        THEN /\ last_second = pre.last_second
             /\ fps = pre.fps
             /\ frames_since_last_second = pre.frames_since_last_second + 1
        ELSE LET k == (now - pre.last_second) \div TicksPerSecond
             IN  /\ k >= 1
                 /\ last_second = pre.last_second + k * TicksPerSecond
                 /\ now - last_second < TicksPerSecond
                 /\ fps = pre.frames_since_last_second \div k
                 /\ frames_since_last_second = 0

\* stale by 3 seconds with 30 frames: FPS 10, anchor 3 seconds on
C8_Witness ==
    /\ DrawDone
    /\ pre.frames_since_last_second = 30
    /\ now - pre.last_second >= 3 * TicksPerSecond
    /\ now - pre.last_second < 4 * TicksPerSecond
    /\ fps = 10
    /\ last_second = pre.last_second + 3 * TicksPerSecond
    /\ frames_since_last_second = 0

QuitPress(e) == e.key /\ IsQuitKey(e.code) /\ e.kind = "Press"

\* C9: a press of 'q' or 'Q' read by the event poll sets the exit flag in
\* that same read; from then on the next evaluation of the loop condition
\* leaves the loop, whatever is still queued and whatever the guest did;
\* and nothing but a press of the quit key ever changes the exit flag (a
\* release or a repeat of it does not).
C9_QuitLeavesLoop ==
    /\ [](quit_read => exit)
    /\ [][ (pc = "loop_check" /\ quit_read /\ pc' # pc)
              => (pc' = "restore" /\ result' = "Ok") ]_vars
    /\ [][ exit' # exit
              => (pc = "read" /\ queue # <<>> /\ QuitPress(Head(queue))) ]_vars

C9_Witness ==
    /\ last.op = "loop_check"
    /\ pc = "restore"
    /\ quit_read
    /\ queue # <<>>
    /\ called = ExportNames

StartupPcs ==
    {"start", "create_memory", "query_picker", "load_module", "instantiate",
     "get_main", "get_step", "get_add_event"}

\* C10: with any of the three exports missing, startup ends in an error
\* before the guest's init entry point is called and before any event
\* poll, step or submit_input call.
C10_MissingExportFailsStartup ==
    exports # ExportNames =>
        /\ called = {}
        /\ ~polled
        /\ pc \in StartupPcs \cup {"exited"}
        /\ pc = "exited" => IsErr(result)

C10_Witness ==
    /\ exports = {"main", "doom_loop_step"}
    /\ last.op = "get_add_event"
    /\ pc = "exited"
    /\ result = "Err(export)"
    /\ called = {}


KeyRead == last.op = "key"
InSubmitInput == pc = "guest" /\ callee = "add_browser_event"

\* key codes of a terminal: printable characters, named keys, F1..F12
WideKeyCodes ==
    { Char(c) : c \in 32..126 }
    \cup { Named(t) : t \in {"Enter", "Backspace", "Left", "Right", "Up", "Down",
                             "Tab", "Esc", "Insert", "Delete", "Home", "End",
                             "PageUp", "PageDown", "Null"} }
    \cup { FKey(n) : n \in 1..12 }

\* C11: a key event of kind repeat never leads to a submit_input call,
\* whatever its key code, and changes nothing in DoomApp; the event kind
\* maps press to 0, release to 1 and repeat to nothing.
C11_RepeatSuppressed ==
    /\ (KeyRead /\ last.kind = "Repeat") =>
          /\ last.forwarded = None
          /\ ~InSubmitInput
          /\ pc = "poll"
          /\ App = pre
    /\ pc = "start" =>
          /\ \A c \in WideKeyCodes : Forwarded(c, "Repeat") = None
          /\ key_event_to_doom_event("Press") = Some(0)
          /\ key_event_to_doom_event("Release") = Some(1)
          /\ key_event_to_doom_event("Repeat") = None

C11_Witness ==
    /\ KeyRead
    /\ last.kind = "Repeat"
    /\ last.code = Char(97)
    /\ pc = "poll"
    /\ "add_browser_event" \notin called

\* C12: the guest's main is called at most once, with (0, 0), and exactly
\* once before anything else is called; step and submit_input are called
\* only after that call has returned, so never when it failed.
C12_InitOnceAndFirst ==
    /\ init_calls <= 1
    /\ init_calls = 1 <=> "main" \in called
    /\ (last.op = "call_main") => last.forwarded = Some(<<0, 0>>)
    /\ (pc = "guest" /\ callee = "main") => called = {"main"}
    /\ (called \ {"main"} # {}) => (init_returned /\ init_calls = 1)
    /\ pc \in {"loop_check", "poll", "read", "step", "sleep"} => init_returned
    /\ (last.op = "guest_trap" /\ last.inside = "main") =>
          (called = {"main"} /\ pc = "restore" /\ result = "Err(main)")

C12_Witness ==
    /\ init_calls = 1
    /\ init_returned
    /\ called = ExportNames
    /\ pc = "sleep"

C12_WitnessInitFails ==
    /\ last.op = "guest_trap"
    /\ last.inside = "main"
    /\ called = {"main"}

AppKeyCodes == { Char(113), Char(81), Char(112), Char(80), Char(43), Char(45) }
AppKeyRead == KeyRead /\ last.code \in AppKeyCodes

\* C13: a key event whose code is 'q', 'Q', 'p', 'P', '+' or '-' is never
\* handed to submit_input, whatever its kind, and changes DoomApp only
\* when its kind is press.
C13_AppKeysStayInHost ==
    AppKeyRead =>
        /\ last.forwarded = None
        /\ ~InSubmitInput
        /\ callee = "none"
        /\ last.kind # "Press" => (App = pre /\ pc = "poll")

C13_Witness ==
    /\ AppKeyRead
    /\ last.code = Char(80)
    /\ last.kind = "Press"
    /\ image_picker.protocol_type # pre.image_picker.protocol_type
    /\ pc = "poll"

PickerBuilt == pc \notin {"start", "create_memory", "query_picker"} /\ result # "Err(picker)"

\* C16: after any sequence of zoom presses the picker's font-cell size is
\* (fw div z, fh div z), fw x fh being the size captured at startup and z
\* the zoom stored in DoomApp.
C16_CellSizeFollowsZoom ==
    PickerBuilt =>
        image_picker.font_size =
            << default_font_size[1] \div zoom, default_font_size[2] \div zoom >>


Moves(from) == pc = from /\ pc' # pc

\* C17: an iteration of the loop is, in this order, a drain of the pending
\* terminal events that ends only when none is pending, one call of step,
\* the sleep; step is entered only from a drain that found the queue
\* empty, every read event having been handled (forwarded or dropped) in
\* its read; and the only ways out of an iteration before step are an
\* error of poll, of read or of a forward.
C17_IterationOrder ==
    /\ [][ Moves("loop_check") =>
              (pc' = "poll" \/ (pc' = "restore" /\ result' = "Ok")) ]_vars
    /\ [][ Moves("poll") =>
              \/ pc' = "read" /\ queue # <<>>
              \/ pc' = "step" /\ queue = <<>>
              \/ pc' = "restore" /\ result' = "Err(poll)" ]_vars
    /\ [][ Moves("read") =>
              \/ pc' = "poll"
              \/ pc' = "guest" /\ callee' = "add_browser_event"
              \/ pc' = "restore" /\ result' = "Err(read)" ]_vars
    /\ [][ Moves("step") => (pc' = "guest" /\ callee' = "doom_loop_step") ]_vars
    /\ [][ (Moves("guest") /\ callee = "add_browser_event") =>
              (pc' = "poll" \/ (pc' = "restore" /\ IsErr(result'))) ]_vars
    /\ [][ (Moves("guest") /\ callee = "doom_loop_step") =>
              (pc' = "sleep" \/ (pc' = "restore" /\ IsErr(result'))) ]_vars
    /\ [][ Moves("sleep") => pc' = "loop_check" ]_vars
    /\ [](steps_in_iter <= 1)
    /\ [](pc = "sleep" => steps_in_iter = 1)
    /\ [](pc \in {"poll", "read", "step"} => steps_in_iter = 0)

C17_Witness ==
    /\ pc = "sleep"
    /\ steps_in_iter = 1
    /\ "add_browser_event" \in called
    /\ queue # <<>>


\* C15: current_frame is None exactly until the first draw-frame callback
\* that reads its frame; nothing sets it back to None afterwards (key
\* handling, zoom, encoding cycle, log callback, another draw), and the
\* terminal draw that renders the widget is reached only with
\* current_frame being Some.
C15_FrameOnceSetStaysSet ==
    /\ [](current_frame = None <=> draws = 0)
    /\ [][ current_frame # None => current_frame' # None ]_vars
    /\ [](last.op = "draw" /\ last.kind = "Ok" => current_frame # None)
    /\ [](last.redraw => last.op = "draw" /\ current_frame # None)

C15_Witness ==
    /\ current_frame # None
    /\ current_frame[1] # image_picker
    /\ last_log_line # None
    /\ last.op = "key"
    /\ IsProtocolKey(last.code)


CyclePress == KeyRead /\ last.kind = "Press" /\ IsProtocolKey(last.code)

\* C20: a zoom-in or zoom-out press leaves the selected encoding as it was;
\* a cycle-encoding press leaves the zoom and the picker's font-cell size as
\* they were; and none of the three changes the exit flag, the log line and
\* its severity, current_frame, or the FPS fields.
C20_PressTouchesOnlyItsField ==
    /\ (ZoomInPress \/ ZoomOutPress) =>
           image_picker.protocol_type = pre.image_picker.protocol_type
    /\ CyclePress =>
           /\ zoom = pre.zoom
           /\ image_picker.font_size = pre.image_picker.font_size
           /\ image_picker.protocol_type # pre.image_picker.protocol_type
    /\ (ZoomInPress \/ ZoomOutPress \/ CyclePress) =>
           /\ exit = pre.exit
           /\ last_log_line = pre.last_log_line
           /\ last_log_error = pre.last_log_error
           /\ current_frame = pre.current_frame
           /\ last_second = pre.last_second
           /\ frames_since_last_second = pre.frames_since_last_second
           /\ fps = pre.fps
           /\ default_font_size = pre.default_font_size

C20_Witness ==
    /\ ZoomInPress
    /\ pre.image_picker.protocol_type = "Kitty"
    /\ image_picker.font_size # pre.image_picker.font_size
    /\ current_frame # None
    /\ last_log_line # None
    /\ last_log_error
    /\ frames_since_last_second > 0


CallbackOps == {"log", "elapsed_ms", "draw"}
\* steps of the guest and of the user, as opposed to those of main()
OutsideOps == CallbackOps \cup {"guest_return", "guest_trap", "tick", "key_arrives", "none"}
LoopPcs == {"loop_check", "poll", "read", "step", "sleep"}

\* C18: a callback (log, elapsed-ms, draw-frame) runs only while a call of
\* main, step or submit_input made by run() is in progress, and returns
\* into that same call (or ends the process); a callback changes neither
\* exit, zoom nor the picker; no step of main() (startup, loop condition,
\* poll, read and key handling, calls, sleep, restore) is taken while a
\* guest call is in progress; and at most one guest call is in progress
\* at a time.
C18_CallbacksNested ==
    /\ last.op \in CallbackOps =>
           /\ last.at = "guest"
           /\ last.inside \in ExportNames
           /\ last.inside \in called
           /\ pc = "panicked" \/ (pc = "guest" /\ callee = last.inside)
           /\ exit = pre.exit
           /\ zoom = pre.zoom
           /\ image_picker = pre.image_picker
    /\ last.op \notin OutsideOps => last.at # "guest"
    /\ pc = "guest" => callee \in ExportNames
    /\ pc \in LoopPcs => callee = "none"

C18_Witness ==
    /\ last.op = "draw"
    /\ last.inside = "add_browser_event"
    /\ pc = "guest"
    /\ queue # <<>>
    /\ pre.current_frame # None
    /\ current_frame # pre.current_frame


LoopLeft == pc \in {"restore", "exited"}
\* inside poll_events(); inside any guest call
InDrain == pc \in {"poll", "read"} \/ InSubmitInput
DrainReturns == InDrain ~> ~InDrain
GuestCallsReturn == InGuest ~> ~InGuest

\* C19: exit is false at the start and never goes back from true to false;
\* once the quit press has been read the drain goes on (a pending event is
\* still read, and one that translates is still forwarded), step is called
\* at most once more and exactly once when the loop ends through its
\* condition; and if every drain ends and every guest call returns, the
\* loop is left after a quit press.
C19_QuitEndsLoop ==
    /\ [](pc = "start" => ~exit)
    /\ [][ exit => exit' ]_vars
    /\ [][ (exit /\ pc = "poll" /\ queue # <<>> /\ pc' # pc)
              => (pc' = "read" \/ (pc' = "restore" /\ result' = "Err(poll)")) ]_vars
    /\ []((KeyRead /\ pre.exit /\ last.code \notin AppKeyCodes
                   /\ Forwarded(last.code, last.kind) # None)
              => (InSubmitInput /\ last.forwarded = Forwarded(last.code, last.kind)))
    /\ [](steps_after_quit <= 1)
    /\ []((LoopLeft /\ result = "Ok")
              => (exit /\ quit_read /\ steps_after_quit = 1))
    /\ (DrainReturns /\ GuestCallsReturn) => (quit_read ~> LoopLeft)

C19_Witness ==
    /\ pc = "exited"
    /\ result = "Ok"
    /\ steps_after_quit = 1
    /\ "add_browser_event" \in called
    /\ queue # <<>>

====
